---- MODULE Spec2Model ----
(***************************************************************************)
(* A model of monodromy/coverage.py: the cost-ordered search               *)
(* build_coverage_set over gate sequences, and the composition pipeline    *)
(* intersect_and_project_to_c it calls.                                    *)
(*                                                                         *)
(* Geometry.  The polytope algebra (monodromy/polytopes.py, elimination.py,*)
(* examples.py) is not part of the sources at hand; only its contract is   *)
(* known.  A region-union is modelled by the finite set of cells it        *)
(* covers: union is set union, intersection is set intersection, a         *)
(* cylinder constrains one coordinate of a triple (a, b, c),               *)
(* projection is existential elimination, and the volume is the number of  *)
(* cells.  The large alcove has 2 * AlcoveCells cells, 0 .. 2*AlcoveCells-1*)
(* and the PU(4) alcove (alcove_c2) is its first half; rho moves a cell    *)
(* of one half to the cell of the other half it is identified with.  The   *)
(* monodromy polytope relates (a, b, c) when c is the product of a and b,  *)
(* here addition modulo the size of the large alcove.                      *)
(*                                                                         *)
(* Search.  One action per step of the loop body, pc naming the position.  *)
(* The frontier is the heapq array itself, pushed and popped as heapq      *)
(* does, so ties are broken as in the program.  trim_polytope_set is known *)
(* by its contract only: a flush may keep any selection of the batch in    *)
(* which no kept candidate is covered by the running union and the other   *)
(* kept ones, and every dropped candidate is covered by the running union  *)
(* and the kept ones.  flushes, composed, discarded and stopped record the *)
(* history of the run and are read by no step.                             *)
(***************************************************************************)
EXTENDS Integers, Sequences, FiniteSets, TLC

\* ------------------------------------------------------------------ bounds
AlcoveCells == 3        \* cells of alcove_c2, the target fundamental domain
MaxOps == 1             \* operations of freely chosen region and cost
MaxCost == 2            \* largest cost of a freely chosen operation

\* ------------------------------------------------- static regions (data)
alcove == 0 .. (2 * AlcoveCells - 1)

alcove_c2 == 0 .. (AlcoveCells - 1)

identity_polytope == {0}

qlr_polytope ==
    {<<a, b, (a + b) % (2 * AlcoveCells)>> : a \in alcove, b \in alcove}

rho(c) == (c + AlcoveCells) % (2 * AlcoveCells)

Volume(region) == Cardinality(region)

\* --------------------------------------------- intersect_and_project_to_c
\* p.intersect(cylinderize(region, coordinate_map)): the triples of p whose
\* coordinate lies in the region, the other coordinates unconstrained
IntersectCylinder(p, region, coordinate) ==
    {t \in p : t[coordinate] \in region}

\* the pipeline without the restriction of the last coordinate to alcove_c2
ProjectUnrestricted(a_polytope, b_polytope) ==
    LET p1 == IntersectCylinder(IntersectCylinder(qlr_polytope, alcove, 1),
                                alcove, 2)
        p2 == IntersectCylinder(IntersectCylinder(p1, a_polytope, 1),
                                b_polytope, 2)
        rho_p == {<<t[1], t[2], rho(t[3])>> : t \in p2}
    IN  {t[3] : t \in p2 \cup rho_p}

intersect_and_project_to_c(a_polytope, b_polytope) ==
    LET p1 == IntersectCylinder(IntersectCylinder(qlr_polytope, alcove, 1),
                                alcove, 2)
        p2 == IntersectCylinder(IntersectCylinder(p1, a_polytope, 1),
                                b_polytope, 2)
        rho_p == {<<t[1], t[2], rho(t[3])>> : t \in p2}
        p3 == IntersectCylinder(p2 \cup rho_p, alcove_c2, 3)
    IN  {t[3] : t \in p3}

\* ------------------------------------------------------------ GatePolytope
GatePolytope(cost, operations_, region) ==
    [cost |-> cost, operations |-> operations_, region |-> region]

\* the comparison by volume alone, the cost left out
LtByVolume(x, y) == Volume(x.region) < Volume(y.region)

Lt(x, y) ==
    \/ x.cost < y.cost
    \/ (x.cost = y.cost /\ Volume(x.region) < Volume(y.region))

\* ------------------------------------------------------------------ heapq
\* Positions are 0-based as in heapq; the sequence index is position + 1.
RECURSIVE SiftDownLoop(_, _, _, _)
SiftDownLoop(heap, startpos, pos, newitem) ==
    IF pos > startpos
    THEN LET parentpos == (pos - 1) \div 2
             parent == heap[parentpos + 1]
         IN  IF Lt(newitem, parent)
             THEN SiftDownLoop([heap EXCEPT ![pos + 1] = parent],
                               startpos, parentpos, newitem)
             ELSE [heap EXCEPT ![pos + 1] = newitem]
    ELSE [heap EXCEPT ![pos + 1] = newitem]

siftdown(heap, startpos, pos) ==
    SiftDownLoop(heap, startpos, pos, heap[pos + 1])

RECURSIVE SiftUpLoop(_, _, _, _)
SiftUpLoop(heap, startpos, pos, newitem) ==
    LET endpos == Len(heap)
        leftpos == 2 * pos + 1
        rightpos == leftpos + 1
        childpos == IF rightpos < endpos
                       /\ ~Lt(heap[leftpos + 1], heap[rightpos + 1])
                    THEN rightpos ELSE leftpos
    IN  IF leftpos < endpos
        THEN SiftUpLoop([heap EXCEPT ![pos + 1] = heap[childpos + 1]],
                        startpos, childpos, newitem)
        ELSE siftdown([heap EXCEPT ![pos + 1] = newitem], startpos, pos)

siftup(heap, pos) == SiftUpLoop(heap, pos, pos, heap[pos + 1])

heappush(heap, item) == siftdown(Append(heap, item), 0, Len(heap))

heappop_item(heap) == heap[1]

heappop_rest(heap) ==
    LET lastelt == heap[Len(heap)]
        rest == SubSeq(heap, 1, Len(heap) - 1)
    IN  IF rest = <<>> THEN rest ELSE siftup([rest EXCEPT ![1] = lastelt], 0)

RECURSIVE PushAll(_, _)
PushAll(heap, items) ==
    IF items = <<>> THEN heap
    ELSE PushAll(heappush(heap, Head(items)), Tail(items))

\* ------------------------------------------------------- trim_polytope_set
UnionOf(polytopes) == UNION {polytopes[i].region : i \in DOMAIN polytopes}

RECURSIVE Keep(_, _)
Keep(polytopes, S) ==
    IF polytopes = <<>> THEN <<>>
    ELSE LET n == Len(polytopes)
             front == Keep(SubSeq(polytopes, 1, n - 1), S)
         IN  IF n \in S THEN Append(front, polytopes[n]) ELSE front

\* The selections a trim may keep: no kept candidate lies in the union of the
\* fixed region and the other kept candidates, and every dropped candidate
\* lies in the union of the fixed region and the kept ones.
TrimSelections(candidates, fixed) ==
    {S \in SUBSET DOMAIN candidates :
        /\ \A i \in S :
             ~(candidates[i].region \subseteq
                 fixed \cup UNION {candidates[j].region : j \in S \ {i}})
        /\ \A i \in DOMAIN candidates \ S :
             candidates[i].region \subseteq
                 fixed \cup UNION {candidates[j].region : j \in S}}

\* ------------------------------------------------------ build_coverage_set
VARIABLES operations, necessary_polytopes, total_polytope, to_be_explored,
          to_be_reduced, waiting_cost, next_polytope, new_polytope, pc,
          flushes, composed, discarded, stopped

\* the state of generate_qlr_inequalities (qlr_table.py), idle while
\* build_coverage_set runs
VARIABLES qlr_table, position, qlr_pc, qlr_inequalities, calls, writes

\* what a caller of build_coverage_set holds from an earlier call
VARIABLES first_call

coverage_vars ==
        <<operations, necessary_polytopes, total_polytope, to_be_explored,
          to_be_reduced, waiting_cost, next_polytope, new_polytope, pc,
          flushes, composed, discarded, stopped>>

qlr_vars == <<qlr_table, position, qlr_pc, qlr_inequalities, calls, writes>>

\* the state of the rho-symmetrization inside intersect_and_project_to_c,
\* followed on inequalities; idle elsewhere
VARIABLES polytope_p, rho_p, rho_pc

rho_vars == <<polytope_p, rho_p, rho_pc>>

vars == <<coverage_vars, qlr_vars, rho_vars, first_call>>

Regions == (SUBSET alcove_c2) \ {{}}

Costs == 0 .. MaxCost

\* Two gates an operation set may hold besides the freely chosen ones: a gate
\* of cost 1 reaching one cell next to the identity, and a gate dearer than
\* any two free operations that alone reaches the whole of alcove_c2.
UnitGate == [cost |-> 1, region |-> {1}]

FullGate == [cost |-> 2 * MaxCost + 1, region |-> alcove_c2]

\* The inputs: up to MaxOps operations of any region and cost, then
\* optionally the unit gate, then optionally the full gate; an operation is
\* labelled by its position in the list.
OperationLists ==
    LET free == UNION {[1 .. n -> [cost : Costs, region : Regions]] :
                         n \in 0 .. MaxOps}
        lists == {f \o u \o g : f \in free, u \in {<<>>, <<UnitGate>>},
                                g \in {<<>>, <<FullGate>>}}
    IN  {[i \in DOMAIN l |-> GatePolytope(l[i].cost, <<i>>, l[i].region)] :
           l \in lists}

NoPolytope == GatePolytope(0, <<>>, {})

\* generate_qlr_inequalities is not running
QlrIdle ==
    /\ qlr_table = <<>>
    /\ position = 0
    /\ qlr_pc = "idle"
    /\ qlr_inequalities = <<>>
    /\ calls = <<>>
    /\ writes = {}

\* the rho-symmetrization is not followed
RhoIdle ==
    /\ polytope_p = <<>>
    /\ rho_p = <<>>
    /\ rho_pc = "idle"

\* the caller has made no earlier call
NoCall == [made |-> FALSE, returned |-> <<>>, stopped |-> FALSE]

Init ==
    /\ operations \in OperationLists
    /\ total_polytope = identity_polytope
    /\ necessary_polytopes = <<GatePolytope(0, <<>>, identity_polytope)>>
    /\ to_be_explored = PushAll(<<>>, operations)
    /\ to_be_reduced = <<>>
    /\ waiting_cost = 0
    /\ next_polytope = NoPolytope
    /\ new_polytope = NoPolytope
    /\ pc = "loop"
    /\ flushes = <<>>
    /\ composed = <<>>
    /\ discarded = <<>>
    /\ stopped = FALSE
    /\ QlrIdle
    /\ RhoIdle
    /\ first_call = NoCall

\* while 0 < len(to_be_explored): next_polytope = heappop(to_be_explored)
Pop ==
    /\ pc = "loop"
    /\ 0 < Len(to_be_explored)
    /\ next_polytope' = heappop_item(to_be_explored)
    /\ to_be_explored' = heappop_rest(to_be_explored)
    /\ pc' = "popped"
    /\ UNCHANGED <<qlr_vars, rho_vars, first_call,
                   operations, necessary_polytopes, total_polytope,
                   to_be_reduced, waiting_cost, new_polytope, flushes,
                   composed, discarded, stopped>>

\* the loop condition fails: the frontier is empty
Exhausted ==
    /\ pc = "loop"
    /\ ~(0 < Len(to_be_explored))
    /\ pc' = "final"
    /\ UNCHANGED <<qlr_vars, rho_vars, first_call,
                   operations, necessary_polytopes, total_polytope,
                   to_be_explored, to_be_reduced, waiting_cost, next_polytope,
                   new_polytope, flushes, composed, discarded, stopped>>

FlushNeeded(next, waiting) == next.cost > waiting

\* the survivors assigned to the necessary set instead of appended to it
AdmitOverwriting(necessary, survivors) == survivors

\* necessary_polytopes += trim_polytope_set(...)
Admit(necessary, survivors) == necessary \o survivors

\* the batch assigned to the running union instead of united with it
FoldOverwriting(total, batch) == UnionOf(batch)

\* the newest batch member alone united with the running union
FoldLast(total, batch) ==
    IF batch = <<>> THEN total ELSE total \cup batch[Len(batch)].region

\* for new_polytope in to_be_reduced: total = total.union(new_polytope)
Fold(total, batch) == total \cup UnionOf(batch)

\* the cost of the last gate alone taken for the cost level
LastGateCost(next) == operations[next.operations[Len(next.operations)]].cost

\* waiting_cost = next_polytope.cost
NextLevel(next) == next.cost

FlushRecord(S, final) ==
    [cost |-> waiting_cost, batch |-> to_be_reduced, kept |-> S,
     total |-> total_polytope, final |-> final]

\* if next_polytope.cost > waiting_cost: flush
Flush ==
    /\ pc = "popped"
    /\ FlushNeeded(next_polytope, waiting_cost)
    /\ \E S \in TrimSelections(to_be_reduced, total_polytope) :
          /\ necessary_polytopes' =
                Admit(necessary_polytopes, Keep(to_be_reduced, S))
          /\ flushes' = Append(flushes, FlushRecord(S, FALSE))
    /\ total_polytope' = Fold(total_polytope, to_be_reduced)
    /\ to_be_reduced' = <<>>
    /\ waiting_cost' = NextLevel(next_polytope)
    /\ pc' = "lookup"
    /\ UNCHANGED <<qlr_vars, rho_vars, first_call,
                   operations, to_be_explored, next_polytope, new_polytope,
                   composed, discarded, stopped>>

NoFlush ==
    /\ pc = "popped"
    /\ ~FlushNeeded(next_polytope, waiting_cost)
    /\ pc' = "lookup"
    /\ UNCHANGED <<qlr_vars, rho_vars, first_call,
                   operations, necessary_polytopes, total_polytope,
                   to_be_explored, to_be_reduced, waiting_cost, next_polytope,
                   new_polytope, flushes, composed, discarded, stopped>>

Prefix(ops) == SubSeq(ops, 1, Len(ops) - 1)

\* a lookup that compares the lengths of the sequences only
TailByLength(necessary, next) ==
    LET matches == {i \in DOMAIN necessary :
                      Len(necessary[i].operations) + 1 = Len(next.operations)}
    IN  IF matches = {} THEN 0
        ELSE CHOOSE i \in matches : \A j \in matches : i <= j

\* next((p for p in necessary_polytopes if p.operations == ...[:-1]), None):
\* the index of the first match, 0 for None.
tail_polytope(necessary, next) ==
    LET matches == {i \in DOMAIN necessary :
                      necessary[i].operations = Prefix(next.operations)}
    IN  IF matches = {} THEN 0
        ELSE CHOOSE i \in matches : \A j \in matches : i <= j

\* the entry without an ancestor put back on the frontier instead of dropped
NoAncestorRequeue ==
    /\ pc = "lookup"
    /\ tail_polytope(necessary_polytopes, next_polytope) = 0
    /\ to_be_explored' = heappush(to_be_explored, next_polytope)
    /\ pc' = "loop"
    /\ UNCHANGED <<qlr_vars, rho_vars, first_call,
                   operations, necessary_polytopes, total_polytope,
                   to_be_reduced, waiting_cost, next_polytope, new_polytope,
                   flushes, composed, discarded, stopped>>

\* if tail_polytope is None: continue
NoAncestor ==
    /\ pc = "lookup"
    /\ tail_polytope(necessary_polytopes, next_polytope) = 0
    /\ discarded' = Append(discarded, next_polytope)
    /\ pc' = "loop"
    /\ UNCHANGED <<qlr_vars, rho_vars, first_call,
                   operations, necessary_polytopes, total_polytope,
                   to_be_explored, to_be_reduced, waiting_cost, next_polytope,
                   new_polytope, flushes, composed, stopped>>

\* the gate composed with the running union instead of with its ancestor
ComposedWithTotal(tail, next) ==
    GatePolytope(next.cost, next.operations,
                 intersect_and_project_to_c(total_polytope, next.region))

Composed(tail, next) ==
    GatePolytope(next.cost, next.operations,
                 intersect_and_project_to_c(tail.region, next.region))

Compose ==
    /\ pc = "lookup"
    /\ tail_polytope(necessary_polytopes, next_polytope) # 0
    /\ LET tail == necessary_polytopes[
                       tail_polytope(necessary_polytopes, next_polytope)]
       IN  /\ new_polytope' = Composed(tail, next_polytope)
           /\ to_be_reduced' = Append(to_be_reduced, new_polytope')
           /\ composed' = Append(composed, new_polytope')
    /\ pc' = "composed"
    /\ UNCHANGED <<qlr_vars, rho_vars, first_call,
                   operations, necessary_polytopes, total_polytope,
                   to_be_explored, waiting_cost, next_polytope, flushes,
                   discarded, stopped>>

\* the comparison with >= : a maximal polytope is expanded too
NotMaximalOrEqual(polytope) == Volume(alcove_c2) >= Volume(polytope.region)

\* the comparison against the large alcove: the loop never stops early
NotMaximalInAlcove(polytope) == Volume(alcove) > Volume(polytope.region)

\* the volume test made on the running union and the pending batch
NotMaximalByUnion(polytope) ==
    Volume(alcove_c2) > Volume(total_polytope \cup UnionOf(to_be_reduced))

NotMaximal(polytope) == Volume(alcove_c2) > Volume(polytope.region)

\* the continuation carrying the region just composed
ContinuationOfComposed(next, operation) ==
    GatePolytope(next.cost + operation.cost,
                 next.operations \o operation.operations,
                 new_polytope.region)

\* the continuation costed by its last gate alone
ContinuationOfLastCost(next, operation) ==
    GatePolytope(operation.cost,
                 next.operations \o operation.operations,
                 operation.region)

\* the continuation labelled by its last gate alone, the prefix left out
ContinuationOfGateAlone(next, operation) ==
    GatePolytope(next.cost + operation.cost,
                 operation.operations,
                 operation.region)

Continuation(next, operation) ==
    GatePolytope(next.cost + operation.cost,
                 next.operations \o operation.operations,
                 operation.region)

RECURSIVE PushContinuations(_, _, _)
PushContinuations(heap, next, ops) ==
    IF ops = <<>> THEN heap
    ELSE PushContinuations(heappush(heap, Continuation(next, Head(ops))),
                           next, Tail(ops))

\* if alcove_c2.volume > new_polytope.volume: push the continuations
Expand ==
    /\ pc = "composed"
    /\ NotMaximal(new_polytope)
    /\ to_be_explored' =
          PushContinuations(to_be_explored, next_polytope, operations)
    /\ pc' = "loop"
    /\ UNCHANGED <<qlr_vars, rho_vars, first_call,
                   operations, necessary_polytopes, total_polytope,
                   to_be_reduced, waiting_cost, next_polytope, new_polytope,
                   flushes, composed, discarded, stopped>>

\* the else branch without its break
StopWithoutBreak ==
    /\ pc = "composed"
    /\ ~NotMaximal(new_polytope)
    /\ stopped' = TRUE
    /\ pc' = "loop"
    /\ UNCHANGED <<qlr_vars, rho_vars, first_call,
                   operations, necessary_polytopes, total_polytope,
                   to_be_explored, to_be_reduced, waiting_cost, next_polytope,
                   new_polytope, flushes, composed, discarded>>

\* else: break
Stop ==
    /\ pc = "composed"
    /\ ~NotMaximal(new_polytope)
    /\ stopped' = TRUE
    /\ pc' = "final"
    /\ UNCHANGED <<qlr_vars, rho_vars, first_call,
                   operations, necessary_polytopes, total_polytope,
                   to_be_explored, to_be_reduced, waiting_cost, next_polytope,
                   new_polytope, flushes, composed, discarded>>

\* one last flush, then return necessary_polytopes
FinalFlush ==
    /\ pc = "final"
    /\ \E S \in TrimSelections(to_be_reduced, total_polytope) :
          /\ necessary_polytopes' =
                Admit(necessary_polytopes, Keep(to_be_reduced, S))
          /\ flushes' = Append(flushes, FlushRecord(S, TRUE))
    /\ total_polytope' = Fold(total_polytope, to_be_reduced)
    /\ pc' = "done"
    /\ UNCHANGED <<qlr_vars, rho_vars, first_call,
                   operations, to_be_explored, to_be_reduced, waiting_cost,
                   next_polytope, new_polytope, composed, discarded, stopped>>

Next ==
    \/ Pop
    \/ Exhausted
    \/ Flush
    \/ NoFlush
    \/ NoAncestor
    \/ Compose
    \/ Expand
    \/ Stop
    \/ FinalFlush

Spec == Init /\ [][Next]_vars

\* ---------------------------------------------------------------- claims
Returned == pc = "done"

RangeOf(polytopes) == {polytopes[i] : i \in DOMAIN polytopes}

IsFull(polytope) == polytope.region = alcove_c2

IdentityEntry == GatePolytope(0, <<>>, identity_polytope)

IsPrefixOf(s, t) == Len(s) <= Len(t) /\ SubSeq(t, 1, Len(s)) = s

\* the one-step region of the last gate of a sequence
LastRegion(ops) == operations[ops[Len(ops)]].region

\* C1. Exhaustiveness: when the run has left the loop through the
\* full-coverage branch and returned, the union of the regions of the
\* returned entries is the whole of alcove_c2.
C1_Exhaustive ==
    (Returned /\ stopped) => UnionOf(necessary_polytopes) = alcove_c2

\* C1 witness: a run stopped by a full-coverage candidate that the final
\* trim removed, together with a batch-mate.
C1_Witness ==
    /\ Returned
    /\ stopped
    /\ IsFull(new_polytope)
    /\ new_polytope \notin RangeOf(necessary_polytopes)
    /\ Len(to_be_reduced) >= 2

\* C2. Irredundancy: in the returned list no entry's region lies in the
\* union of the regions of the other returned entries of equal or lower cost.
C2_Irredundant ==
    Returned =>
        \A i \in DOMAIN necessary_polytopes :
            ~(necessary_polytopes[i].region \subseteq
                UNION {necessary_polytopes[j].region :
                         j \in {k \in DOMAIN necessary_polytopes \ {i} :
                                  necessary_polytopes[k].cost
                                      <= necessary_polytopes[i].cost}})

\* C3. Composition consistency: every entry of the pending batch or of the
\* necessary set with a sequence s' + [op] is the entry as it was composed,
\* and its region is the composition of the region of the necessary-set
\* entry with sequence s' and the one-step region of op.
C3_CompositionConsistent ==
    \A e \in RangeOf(to_be_reduced) \cup RangeOf(necessary_polytopes) :
        e.operations # <<>> =>
            /\ e \in RangeOf(composed)
            /\ \E i \in DOMAIN necessary_polytopes :
                  necessary_polytopes[i].operations = Prefix(e.operations)
            /\ \A i \in DOMAIN necessary_polytopes :
                  necessary_polytopes[i].operations = Prefix(e.operations) =>
                      e.region = intersect_and_project_to_c(
                                     necessary_polytopes[i].region,
                                     LastRegion(e.operations))

\* C3 witness: a sequence of two gates is in the necessary set, its ancestor
\* is not the identity entry, and a sequence starting with another gate was
\* composed as well.
C3_Witness ==
    \E e \in RangeOf(necessary_polytopes), f \in RangeOf(composed) :
        /\ Len(e.operations) = 2
        /\ f.operations[1] # e.operations[1]
        /\ e.region # LastRegion(e.operations)

HasAncestor(necessary, ops) ==
    \E i \in DOMAIN necessary : necessary[i].operations = Prefix(ops)

\* C4. No-ancestor pruning: a popped entry whose prefix sequence is the
\* sequence of no necessary-set entry at the lookup adds nothing to the
\* pending batch and pushes nothing onto the frontier; and every entry of the
\* pending batch or the necessary set with a non-empty sequence has its
\* prefix sequence in the necessary set.
C4_NoAncestorPruning ==
    /\ [][(pc = "lookup"
             /\ ~HasAncestor(necessary_polytopes, next_polytope.operations))
          => /\ to_be_reduced' = to_be_reduced
             /\ to_be_explored' = to_be_explored
             /\ composed' = composed
             /\ necessary_polytopes' = necessary_polytopes]_vars
    /\ [](\A e \in RangeOf(to_be_reduced) \cup RangeOf(necessary_polytopes) :
            e.operations # <<>>
                => HasAncestor(necessary_polytopes, e.operations))

\* C4 witness: an entry was discarded whose prefix had been composed and then
\* dropped by a trim, while the search went on to admit other entries.
C4_Witness ==
    /\ pc = "loop"
    /\ \E d \in RangeOf(discarded) :
          /\ \E c \in RangeOf(composed) : c.operations = Prefix(d.operations)
          /\ ~HasAncestor(necessary_polytopes, d.operations)
          /\ \A e \in RangeOf(composed) : e.operations # d.operations
          /\ \A e \in RangeOf(to_be_explored) :
                ~IsPrefixOf(d.operations, e.operations)

\* the sequences of at most n gates over the given operations
SequencesUpTo(n) == UNION {[1 .. k -> DOMAIN operations] : k \in 0 .. n}

RECURSIVE SequenceCost(_)
SequenceCost(ops) ==
    IF ops = <<>> THEN 0
    ELSE SequenceCost(Prefix(ops)) + operations[ops[Len(ops)]].cost

\* region([]) = identity, region(t + [op]) = compose(region(t), region(op))
RECURSIVE SequenceRegion(_)
SequenceRegion(ops) ==
    IF ops = <<>> THEN identity_polytope
    ELSE intersect_and_project_to_c(SequenceRegion(Prefix(ops)),
                                    LastRegion(ops))

C6_MonotoneFlushCosts ==
    \A i, j \in DOMAIN flushes :
        i <= j => flushes[i].cost <= flushes[j].cost

\* C6 witness: a returned run with flushes at three different cost levels.
C6_Witness ==
    /\ Returned
    /\ \E i, j, k \in DOMAIN flushes :
          /\ flushes[i].cost < flushes[j].cost
          /\ flushes[j].cost < flushes[k].cost
          /\ flushes[k].final

SingleFullOperation ==
    /\ Len(operations) = 1
    /\ operations[1].cost > 0
    /\ intersect_and_project_to_c(identity_polytope, operations[1].region)
           = alcove_c2

\* C7. Single-operation coverage: with one operation of positive cost whose
\* composition with the identity is alcove_c2, the run composes once, pushes
\* no extension and returns the identity followed by that operation alone.
C7_SingleOperation ==
    SingleFullOperation =>
        /\ Len(composed) <= 1
        /\ Len(to_be_explored) <= 1
        /\ (pc \in {"final", "done"} => to_be_explored = <<>>)
        /\ Returned =>
              /\ Len(composed) = 1
              /\ necessary_polytopes =
                    <<IdentityEntry,
                      GatePolytope(operations[1].cost, <<1>>, alcove_c2)>>

\* C7 witness: such a run has returned.
C7_Witness == SingleFullOperation /\ Returned /\ stopped

\* C8. Partial cover: on return every region composed during the run lies in
\* the union of the returned regions, which equals the final running union.
C8_PartialCover ==
    Returned =>
        /\ UnionOf(necessary_polytopes) = total_polytope
        /\ \A c \in RangeOf(composed) :
              c.region \subseteq UnionOf(necessary_polytopes)

\* C8 witness: the frontier emptied without the stop firing, after candidates
\* were composed and some of them dropped by a trim.
C8_Witness ==
    /\ Returned
    /\ ~stopped
    /\ total_polytope # alcove_c2
    /\ \E c \in RangeOf(composed) : c \notin RangeOf(necessary_polytopes)

FinalFlushes == {i \in DOMAIN flushes : flushes[i].final}

\* C9. Early stop, then exactly one final flush: once a composed region
\* attains full coverage nothing more is popped, composed or pushed; and on
\* return, however the loop ended, the pending batch has been trimmed and
\* folded exactly once after the loop, as the last flush.
C9_StopThenOneFinalFlush ==
    /\ [][stopped => /\ to_be_explored' = to_be_explored
                     /\ next_polytope' = next_polytope
                     /\ composed' = composed
                     /\ to_be_reduced' = to_be_reduced]_vars
    /\ [][(pc = "composed" /\ IsFull(new_polytope)) => stopped']_vars
    /\ [](pc \in {"loop", "popped", "lookup", "composed", "final"}
            => FinalFlushes = {})
    /\ [](Returned =>
            /\ FinalFlushes = {Len(flushes)}
            /\ flushes[Len(flushes)].batch = to_be_reduced
            /\ total_polytope =
                  flushes[Len(flushes)].total \cup UnionOf(to_be_reduced)
            /\ \E n \in DOMAIN necessary_polytopes :
                  SubSeq(necessary_polytopes, n + 1,
                         Len(necessary_polytopes))
                      = Keep(to_be_reduced, flushes[Len(flushes)].kept))

\* C9 witness: a run returned after an early stop that left queued an entry
\* as cheap as the one it stopped on.
C9_Witness ==
    /\ Returned
    /\ stopped
    /\ \E e \in RangeOf(to_be_explored) : e.cost = new_polytope.cost

\* C10. The necessary set is append-only: it starts as the identity entry
\* alone, every step leaves the earlier necessary set a prefix of the later
\* one, and its first entry is always the identity entry.
C10_AppendOnly ==
    /\ (necessary_polytopes = <<IdentityEntry>>)
    /\ [][IsPrefixOf(necessary_polytopes, necessary_polytopes')]_vars
    /\ [](necessary_polytopes # <<>>
            /\ necessary_polytopes[1] = IdentityEntry)

\* C10 witness: a returned necessary set that grew at two different flushes.
C10_Witness ==
    /\ Returned
    /\ Len(necessary_polytopes) >= 3
    /\ \E i, j \in DOMAIN flushes :
          i # j /\ flushes[i].kept # {} /\ flushes[j].kept # {}

\* ------------------------------------------- generate_qlr_inequalities
\* A table entry [r, k, [*a], [*b], [*c], d].
Entry(r, k, a, b, c, d) == [r |-> r, k |-> k, a |-> a, b |-> b, c |-> c, d |-> d]

\* The stored table of quantum Littlewood-Richardson coefficients.
StoredTable == <<
    Entry(1, 3, <<0>>, <<0>>, <<0>>, 0),
    Entry(1, 3, <<0>>, <<1>>, <<1>>, 0),
    Entry(1, 3, <<0>>, <<2>>, <<2>>, 0),
    Entry(1, 3, <<0>>, <<3>>, <<3>>, 0),
    Entry(1, 3, <<1>>, <<1>>, <<2>>, 0),
    Entry(1, 3, <<1>>, <<2>>, <<3>>, 0),
    Entry(1, 3, <<1>>, <<3>>, <<0>>, 1),
    Entry(1, 3, <<2>>, <<2>>, <<0>>, 1),
    Entry(1, 3, <<2>>, <<3>>, <<1>>, 1),
    Entry(1, 3, <<3>>, <<3>>, <<2>>, 1),
    Entry(2, 2, <<0, 0>>, <<0, 0>>, <<0, 0>>, 0),
    Entry(2, 2, <<0, 0>>, <<1, 0>>, <<1, 0>>, 0),
    Entry(2, 2, <<0, 0>>, <<1, 1>>, <<1, 1>>, 0),
    Entry(2, 2, <<0, 0>>, <<2, 0>>, <<2, 0>>, 0),
    Entry(2, 2, <<0, 0>>, <<2, 1>>, <<2, 1>>, 0),
    Entry(2, 2, <<0, 0>>, <<2, 2>>, <<2, 2>>, 0),
    Entry(2, 2, <<1, 0>>, <<1, 0>>, <<1, 1>>, 0),
    Entry(2, 2, <<1, 0>>, <<1, 0>>, <<2, 0>>, 0),
    Entry(2, 2, <<1, 0>>, <<1, 1>>, <<2, 1>>, 0),
    Entry(2, 2, <<1, 0>>, <<2, 0>>, <<2, 1>>, 0),
    Entry(2, 2, <<1, 0>>, <<2, 1>>, <<2, 2>>, 0),
    Entry(2, 2, <<1, 0>>, <<2, 1>>, <<0, 0>>, 1),
    Entry(2, 2, <<1, 0>>, <<2, 2>>, <<1, 0>>, 1),
    Entry(2, 2, <<1, 1>>, <<1, 1>>, <<2, 2>>, 0),
    Entry(2, 2, <<1, 1>>, <<2, 0>>, <<0, 0>>, 1),
    Entry(2, 2, <<1, 1>>, <<2, 1>>, <<1, 0>>, 1),
    Entry(2, 2, <<1, 1>>, <<2, 2>>, <<2, 0>>, 1),
    Entry(2, 2, <<2, 0>>, <<2, 0>>, <<2, 2>>, 0),
    Entry(2, 2, <<2, 0>>, <<2, 1>>, <<1, 0>>, 1),
    Entry(2, 2, <<2, 0>>, <<2, 2>>, <<1, 1>>, 1),
    Entry(2, 2, <<2, 1>>, <<2, 1>>, <<2, 0>>, 1),
    Entry(2, 2, <<2, 1>>, <<2, 1>>, <<1, 1>>, 1),
    Entry(2, 2, <<2, 1>>, <<2, 2>>, <<2, 1>>, 1),
    Entry(2, 2, <<2, 2>>, <<2, 2>>, <<0, 0>>, 2),
    Entry(3, 1, <<0, 0, 0>>, <<0, 0, 0>>, <<0, 0, 0>>, 0),
    Entry(3, 1, <<0, 0, 0>>, <<1, 0, 0>>, <<1, 0, 0>>, 0),
    Entry(3, 1, <<0, 0, 0>>, <<1, 1, 0>>, <<1, 1, 0>>, 0),
    Entry(3, 1, <<0, 0, 0>>, <<1, 1, 1>>, <<1, 1, 1>>, 0),
    Entry(3, 1, <<1, 0, 0>>, <<1, 0, 0>>, <<1, 1, 0>>, 0),
    Entry(3, 1, <<1, 0, 0>>, <<1, 1, 0>>, <<1, 1, 1>>, 0),
    Entry(3, 1, <<1, 0, 0>>, <<1, 1, 1>>, <<0, 0, 0>>, 1),
    Entry(3, 1, <<1, 1, 0>>, <<1, 1, 0>>, <<0, 0, 0>>, 1),
    Entry(3, 1, <<1, 1, 0>>, <<1, 1, 1>>, <<1, 0, 0>>, 1),
    Entry(3, 1, <<1, 1, 1>>, <<1, 1, 1>>, <<1, 1, 0>>, 1)>>

MaxRank == 2

MaxPart == 3

MaxDegree == 1

\* k-planes in C^4, 0 < k < 4
Planes == 1 .. 3

Partitions(r) ==
    {p \in [1 .. r -> 0 .. MaxPart] : \A i \in 1 .. r - 1 : p[i] >= p[i + 1]}

\* new_row = [Fraction(d), 0, ..., 0]: position n + 1 holds new_row[n]
FreshRow(d) == [n \in 1 .. 13 |-> IF n = 1 THEN d ELSE 0]

\* A Python list of 13 items accepts the indices -13 .. 12 and raises
\* IndexError on any other; a negative index counts from the end.
InRange(j) == j \in -13 .. 12

Slot(j) == IF j < 0 THEN j + 13 ELSE j

\* for i, pi in enumerate(part): index = k + (i + 1) - pi;
\*     new_row[index + offset] += delta
\* from the i-th part on (i counts from 1 here); the pokes made are recorded
\* with the block they were meant for.
RECURSIVE PokeBlock(_, _, _, _, _, _)
PokeBlock(state, k, part, i, offset, delta) ==
    IF state.raised \/ i > Len(part) THEN state
    ELSE LET index == k + i - part[i]
             j == index + offset
         IN  IF ~InRange(j) THEN [state EXCEPT !.raised = TRUE]
             ELSE PokeBlock(
                    [row |-> [state.row EXCEPT ![Slot(j) + 1] = @ + delta],
                     raised |-> FALSE,
                     pokes |-> state.pokes
                                 \cup {[offset |-> offset, slot |-> Slot(j)]}],
                    k, part, i + 1, offset, delta)

\* the row after the three loops of ineq_from_qlr, or the IndexError
PokedRow(r, k, a, b, c, d) ==
    LET fresh == [row |-> FreshRow(d), raised |-> FALSE, pokes |-> {}]
        alphas == PokeBlock(fresh, k, a, 1, 0, -1)
        betas == PokeBlock(alphas, k, b, 1, 4, -1)
    IN  PokeBlock(betas, k, c, 1, 8, 1)

\* now remember that a4 = -a1-a2-a3 and so on
Collapse(row) ==
    <<row[1],
      row[2] - row[5], row[3] - row[5], row[4] - row[5],
      row[6] - row[9], row[7] - row[9], row[8] - row[9],
      row[10] - row[13], row[11] - row[13], row[12] - row[13]>>

ineq_from_qlr(r, k, a, b, c, d) == Collapse(PokedRow(r, k, a, b, c, d).row)

Raises(e) == PokedRow(e.r, e.k, e.a, e.b, e.c, e.d).raised

Pokes(e) == PokedRow(e.r, e.k, e.a, e.b, e.c, e.d).pokes

\* the second call made with the operands b and c exchanged
SwappedBC(e) == Entry(e.r, e.k, e.a, e.c, e.b, e.d)

\* ineq_from_qlr(r, k, b, a, c, d)
Swapped(e) == Entry(e.r, e.k, e.b, e.a, e.c, e.d)

\* build_coverage_set is not running
CoverageIdle ==
    /\ operations = <<>>
    /\ necessary_polytopes = <<>>
    /\ total_polytope = {}
    /\ to_be_explored = <<>>
    /\ to_be_reduced = <<>>
    /\ waiting_cost = 0
    /\ next_polytope = NoPolytope
    /\ new_polytope = NoPolytope
    /\ pc = "idle"
    /\ flushes = <<>>
    /\ composed = <<>>
    /\ discarded = <<>>
    /\ stopped = FALSE

\* qlr_inequalities = []: the generator is run on the stored table, and on
\* every table of one entry a table might hold, the malformed ones included.
QlrInit ==
    /\ \/ qlr_table = StoredTable
       \/ \E r \in 1 .. MaxRank, k \in Planes, d \in 0 .. MaxDegree :
             \E a \in Partitions(r), b \in Partitions(r), c \in Partitions(r) :
                qlr_table = <<Entry(r, k, a, b, c, d)>>
    /\ position = 1
    /\ qlr_pc = "entry"
    /\ qlr_inequalities = <<>>
    /\ calls = <<>>
    /\ writes = {}
    /\ CoverageIdle
    /\ RhoIdle
    /\ first_call = NoCall

\* the argument list of the call at hand
CallAtHand ==
    IF qlr_pc = "entry" THEN qlr_table[position]
    ELSE Swapped(qlr_table[position])

\* qlr_inequalities.append(ineq_from_qlr(r, k, a, b, c, d))
AppendEntry ==
    /\ qlr_pc = "entry"
    /\ position <= Len(qlr_table)
    /\ LET e == CallAtHand
       IN  /\ ~Raises(e)
           /\ qlr_inequalities' =
                 Append(qlr_inequalities,
                        ineq_from_qlr(e.r, e.k, e.a, e.b, e.c, e.d))
           /\ calls' = Append(calls, e)
           /\ writes' = writes \cup Pokes(e)
    /\ qlr_pc' = "swapped"
    /\ UNCHANGED <<coverage_vars, rho_vars, first_call, qlr_table, position>>

\* if a != b: qlr_inequalities.append(ineq_from_qlr(r, k, b, a, c, d))
AppendSwapped ==
    /\ qlr_pc = "swapped"
    /\ qlr_table[position].a # qlr_table[position].b
    /\ LET e == CallAtHand
       IN  /\ ~Raises(e)
           /\ qlr_inequalities' =
                 Append(qlr_inequalities,
                        ineq_from_qlr(e.r, e.k, e.a, e.b, e.c, e.d))
           /\ calls' = Append(calls, e)
           /\ writes' = writes \cup Pokes(e)
    /\ position' = position + 1
    /\ qlr_pc' = "entry"
    /\ UNCHANGED <<coverage_vars, rho_vars, first_call, qlr_table>>

SkipSwapped ==
    /\ qlr_pc = "swapped"
    /\ qlr_table[position].a = qlr_table[position].b
    /\ position' = position + 1
    /\ qlr_pc' = "entry"
    /\ UNCHANGED <<coverage_vars, rho_vars, first_call, qlr_table, qlr_inequalities,
                   calls, writes>>

\* a poke of the call at hand raises IndexError, which nothing catches
RaiseIndexError ==
    /\ \/ qlr_pc = "entry" /\ position <= Len(qlr_table)
       \/ qlr_pc = "swapped"
            /\ qlr_table[position].a # qlr_table[position].b
    /\ Raises(CallAtHand)
    /\ writes' = writes \cup Pokes(CallAtHand)
    /\ qlr_pc' = "raised"
    /\ UNCHANGED <<coverage_vars, rho_vars, first_call, qlr_table, position,
                   qlr_inequalities, calls>>

\* return qlr_inequalities
ReturnInequalities ==
    /\ qlr_pc = "entry"
    /\ ~(position <= Len(qlr_table))
    /\ qlr_pc' = "returned"
    /\ UNCHANGED <<coverage_vars, rho_vars, first_call, qlr_table, position,
                   qlr_inequalities, calls, writes>>

QlrNext ==
    \/ AppendEntry
    \/ AppendSwapped
    \/ SkipSwapped
    \/ RaiseIndexError
    \/ ReturnInequalities

QlrSpec == QlrInit /\ [][QlrNext]_vars

\* every slot index k + (i + 1) - p_i of the entry falls in 1 .. 4
WellFormed(e) ==
    \A part \in {e.a, e.b, e.c} :
       \A i \in DOMAIN part : e.k + i - part[i] \in 1 .. 4

\* C11. Malformed table entries are rejected: every call whose inequality
\* was appended had a well-formed argument list (a malformed one raised
\* instead), and no poke ever landed outside the four slots of the block it
\* was meant for, in the constant slot or in another block.
C11_MalformedRejected ==
    /\ \A n \in DOMAIN calls : WellFormed(calls[n])
    /\ \A w \in writes : w.slot \in w.offset + 1 .. w.offset + 4

\* the vector with its "a" block (positions 1..3 after the constant) and
\* its "b" block (positions 4..6) exchanged
SwapAB(v) == <<v[1], v[5], v[6], v[7], v[2], v[3], v[4], v[8], v[9], v[10]>>

\* C12. The generator's output is closed under exchanging the operand
\* blocks: on a table of well-formed entries every returned vector has
\* exactly 10 coefficients, its constant term is the degree d of the entry it
\* was generated from, and the vector with its "a" and "b" blocks exchanged
\* is a returned vector too.
C12_SwapClosed ==
    (qlr_pc = "returned" /\ \A n \in DOMAIN qlr_table : WellFormed(qlr_table[n]))
        => \A n \in DOMAIN qlr_inequalities :
              /\ Len(qlr_inequalities[n]) = 10
              /\ qlr_inequalities[n][1] = calls[n].d
              /\ \E m \in DOMAIN qlr_inequalities :
                    qlr_inequalities[m] = SwapAB(qlr_inequalities[n])

\* C12 witness: the generator returned on the stored table, with one vector
\* for each entry and one more for each entry whose operands differ, some of
\* which are not their own exchange.
C12_Witness ==
    /\ qlr_pc = "returned"
    /\ qlr_table = StoredTable
    /\ Len(qlr_inequalities) > Len(StoredTable)
    /\ \E n \in DOMAIN qlr_inequalities :
          qlr_inequalities[n] # SwapAB(qlr_inequalities[n])

\* ------------------------------------------------ build_coverage_set, ctd.
\* the geometry admitted or considered so far, the pending batch included
RunningUnion == total_polytope \cup UnionOf(to_be_reduced)

\* C13 as stated. Volume saturation is tested on the running union: at the
\* volume test the loop stops exactly when the volume of the running union
\* has reached the volume of alcove_c2.
C13_StopOnRunningUnion ==
    [][pc = "composed" =>
          (stopped' <=> Volume(RunningUnion) >= Volume(alcove_c2))]_vars

\* C13, amended. The volume test is made on the composed region alone: the
\* loop stops exactly when the volume of the region just composed has
\* reached the volume of alcove_c2, and then goes to the final flush.
C13_StopOnComposedRegion ==
    [][pc = "composed" =>
          /\ stopped' <=> Volume(new_polytope.region) >= Volume(alcove_c2)
          /\ stopped' => pc' = "final"
          /\ ~stopped' => pc' = "loop"]_vars

\* C13 witness: the loop goes on, entries still queued, although the running
\* union already covers alcove_c2.
C13_Witness ==
    /\ pc = "loop"
    /\ ~stopped
    /\ total_polytope = alcove_c2
    /\ to_be_explored # <<>>
    /\ Volume(new_polytope.region) < Volume(alcove_c2)

\* the sequence is that of a composed entry still waiting in the batch
IsPending(ops) ==
    \E n \in DOMAIN to_be_reduced : to_be_reduced[n].operations = ops

\* C15. Discard-versus-pending: an entry found without an ancestor at the
\* lookup is never one whose prefix has been composed and is waiting in the
\* unflushed batch; its prefix has been decided, trimmed at a flush or
\* itself discarded.
C15_DiscardOnlyDecided ==
    (pc = "lookup" /\ ~HasAncestor(necessary_polytopes,
                                   next_polytope.operations))
        => /\ ~IsPending(Prefix(next_polytope.operations))
           /\ \/ \E n \in DOMAIN discarded :
                    discarded[n].operations = Prefix(next_polytope.operations)
              \/ \E n \in DOMAIN flushes :
                    \E m \in DOMAIN flushes[n].batch \ flushes[n].kept :
                       flushes[n].batch[m].operations
                          = Prefix(next_polytope.operations)

\* C16. Batch homogeneity: the costs of successive pops never decrease, and
\* every member of the pending batch has cost exactly waiting_cost, so the
\* batch handed to a flush holds the candidates of one cost level only.
C16_BatchHomogeneous ==
    /\ [][(pc = "loop" /\ pc' = "popped")
             => next_polytope.cost <= next_polytope'.cost]_vars
    /\ [](\A n \in DOMAIN to_be_reduced :
             to_be_reduced[n].cost = waiting_cost)
    /\ [](\A n \in DOMAIN flushes : \A m \in DOMAIN flushes[n].batch :
             flushes[n].batch[m].cost = flushes[n].cost)

\* C16 witness: a loop flush of a batch of two candidates of one positive
\* cost, after a flush of a cheaper batch.
C16_Witness ==
    /\ Len(flushes) >= 2
    /\ ~flushes[Len(flushes)].final
    /\ Len(flushes[Len(flushes)].batch) >= 2
    /\ flushes[Len(flushes)].cost > 0
    /\ flushes[Len(flushes) - 1].batch # <<>>

\* the step is the flush inside the loop / the flush after the loop
IsLoopFlush ==
    pc = "popped" /\ pc' = "lookup" /\ next_polytope.cost > waiting_cost

IsFinalFlush == pc = "final" /\ pc' = "done"

\* the necessary set gains exactly what some trim of the batch keeps
AppendsSurvivors ==
    \E S \in TrimSelections(to_be_reduced, total_polytope) :
       necessary_polytopes' = necessary_polytopes \o Keep(to_be_reduced, S)

\* C17. Flush effect and frame: the flush inside the loop replaces the
\* running union by its union with every batch member, the trimmed ones
\* included, appends exactly the trim survivors to the necessary set and
\* empties the batch; the flush after the loop does the first two; no other
\* step changes the necessary set or the running union; and the running
\* union never shrinks.
C17_FlushEffect ==
    /\ [][IsLoopFlush =>
             /\ total_polytope' = total_polytope \cup UnionOf(to_be_reduced)
             /\ AppendsSurvivors
             /\ to_be_reduced' = <<>>]_vars
    /\ [][IsFinalFlush =>
             /\ total_polytope' = total_polytope \cup UnionOf(to_be_reduced)
             /\ AppendsSurvivors]_vars
    /\ [][~(IsLoopFlush \/ IsFinalFlush) =>
             /\ necessary_polytopes' = necessary_polytopes
             /\ total_polytope' = total_polytope]_vars
    /\ [][total_polytope \subseteq total_polytope']_vars

\* C17 witness: a loop flush has emptied a batch of two candidates, kept one
\* and trimmed the other, and the trimmed one's region is in the running
\* union.
C17_Witness ==
    /\ pc = "lookup"
    /\ to_be_reduced = <<>>
    /\ flushes # <<>>
    /\ LET f == flushes[Len(flushes)]
       IN  /\ ~f.final
           /\ Len(f.batch) >= 2
           /\ Cardinality(f.kept) = 1
           /\ UnionOf(f.batch) \subseteq total_polytope
           /\ ~(UnionOf(f.batch) \subseteq f.total)

\* how many times the entry occurs in the frontier
Count(heap, entry) == Cardinality({n \in DOMAIN heap : heap[n] = entry})

\* the frontier entry that extends the popped entry by the i-th operation
Extension(i) ==
    [cost |-> next_polytope.cost + operations[i].cost,
     operations |-> Append(next_polytope.operations, i),
     region |-> operations[i].region]

\* C18. Expansion rule: at the volume test, if the volume of the composed
\* region is strictly below that of alcove_c2 the frontier gains exactly one
\* entry for each operation, with sequence s + [op], cost cost(s) + cost(op)
\* and the one-step region of op, and nothing else changes in it; otherwise
\* the frontier is left as it is.
C18_Expansion ==
    [][pc = "composed" =>
          IF Volume(new_polytope.region) < Volume(alcove_c2)
          THEN /\ Len(to_be_explored')
                     = Len(to_be_explored) + Len(operations)
               /\ \A entry \in RangeOf(to_be_explored) \cup
                                RangeOf(to_be_explored') \cup
                                {Extension(i) : i \in DOMAIN operations} :
                     Count(to_be_explored', entry)
                        = Count(to_be_explored, entry)
                            + Cardinality({i \in DOMAIN operations :
                                             Extension(i) = entry})
          ELSE to_be_explored' = to_be_explored]_vars

\* C18 witness: the extensions of a two-gate sequence by each of three
\* operations are queued next to entries queued earlier.
C18_Witness ==
    /\ pc = "loop"
    /\ Len(operations) = 3
    /\ Len(next_polytope.operations) = 2
    /\ new_polytope.operations = next_polytope.operations
    /\ \A i \in DOMAIN operations :
          Extension(i) \in RangeOf(to_be_explored)
    /\ Len(to_be_explored) > 3

\* C19. Cost tagging: every entry of the frontier, the pending batch and the
\* necessary set has cost equal to the sum of the costs of the gates of its
\* sequence, and a composed entry carries the cost and the sequence of the
\* frontier entry it was composed from.
C19_CostTagging ==
    /\ \A entry \in RangeOf(to_be_explored) \cup RangeOf(to_be_reduced)
                     \cup RangeOf(necessary_polytopes) :
          entry.cost = SequenceCost(entry.operations)
    /\ pc = "composed" =>
          /\ new_polytope.cost = next_polytope.cost
          /\ new_polytope.operations = next_polytope.operations

\* C19 witness: a three-gate sequence of two different gates of different
\* positive costs is composed.
C19_Witness ==
    /\ pc = "composed"
    /\ Len(new_polytope.operations) = 3
    /\ \E i, j \in DOMAIN operations :
          /\ i # j
          /\ operations[i].cost # operations[j].cost
          /\ operations[i].cost > 0
          /\ operations[j].cost > 0
          /\ new_polytope.operations[1] = i
          /\ new_polytope.operations[3] = j

\* the positions of build_coverage_set
Positions == {"loop", "popped", "lookup", "composed", "final", "done"}

\* The function moves on from its position. Every step of Next moves pc, and
\* one is possible exactly when pc is not "done".
Advance == pc # "done" /\ pc' \in Positions \ {pc}

\* The interpreter runs build_coverage_set to its return: while it has not
\* returned it moves on, which is weak fairness of Next.
FairSpec == Spec /\ WF_pc(Advance)

\* the regions the gate sequences compose to, of any length
RECURSIVE Closure(_)
Closure(regions) ==
    LET more == regions \cup
                  {intersect_and_project_to_c(R, operations[i].region) :
                     R \in regions, i \in DOMAIN operations}
    IN  IF more = regions THEN regions ELSE Closure(more)

\* no gate sequence composes to the whole of alcove_c2
NeverFull == alcove_c2 \notin Closure({identity_polytope})

\* C20. Termination without coverage: every run eventually returns; the
\* stop fires only when some gate sequence attains full coverage, so over
\* gates none of whose sequences does, the run returns with the stop unfired
\* and, as every run that returns so, with the frontier empty; and once the
\* running union is the whole of alcove_c2 every candidate flushed later is
\* trimmed.
C20_TerminatesWithoutCoverage ==
    /\ <>Returned
    /\ [](stopped => ~NeverFull)
    /\ []((Returned /\ ~stopped) => to_be_explored = <<>>)
    /\ [](\A n \in DOMAIN flushes :
             flushes[n].total = alcove_c2 => flushes[n].kept = {})

\* C20 witness: a run over gates no sequence of which attains full coverage
\* has returned with the frontier empty, after the running union became the
\* whole of alcove_c2, a later candidate was trimmed and an extension found
\* without an ancestor was dropped.
C20_Witness ==
    /\ Returned
    /\ NeverFull
    /\ to_be_explored = <<>>
    /\ discarded # <<>>
    /\ \E n \in DOMAIN flushes :
          flushes[n].total = alcove_c2 /\ flushes[n].batch # <<>>

\* ------------------------------------------- a caller of build_coverage_set
\* The caller keeps what the call returned, which is necessary_polytopes and
\* nothing else, and calls build_coverage_set again on operations of its
\* choice; how the earlier call left its loop is recorded beside it.
CallAgain ==
    /\ pc = "done"
    /\ ~first_call.made
    /\ first_call' = [made |-> TRUE, returned |-> necessary_polytopes,
                      stopped |-> stopped]
    /\ operations' \in OperationLists
    /\ total_polytope' = identity_polytope
    /\ necessary_polytopes' = <<GatePolytope(0, <<>>, identity_polytope)>>
    /\ to_be_explored' = PushAll(<<>>, operations')
    /\ to_be_reduced' = <<>>
    /\ waiting_cost' = 0
    /\ next_polytope' = NoPolytope
    /\ new_polytope' = NoPolytope
    /\ pc' = "loop"
    /\ flushes' = <<>>
    /\ composed' = <<>>
    /\ discarded' = <<>>
    /\ stopped' = FALSE
    /\ UNCHANGED <<qlr_vars, rho_vars>>

TwoCallsNext ==
    \/ Pop
    \/ Exhausted
    \/ Flush
    \/ NoFlush
    \/ NoAncestor
    \/ Compose
    \/ Expand
    \/ Stop
    \/ FinalFlush
    \/ CallAgain

TwoCallsSpec == Init /\ [][TwoCallsNext]_vars

\* C14. An emptied frontier is reported: what build_coverage_set returns
\* tells the caller how the run ended, so two calls that return the same
\* value either both ended through the full-coverage branch or both ended
\* on an empty frontier.
C14_OutcomeTellsHowItEnded ==
    (Returned /\ first_call.made
       /\ necessary_polytopes = first_call.returned)
        => stopped = first_call.stopped

\* ------------------------------------------------ build_coverage_set, ctd.
\* no two positions of the list hold the same gate sequence
DistinctSequences(polytopes) ==
    \A m, n \in DOMAIN polytopes :
       polytopes[m].operations = polytopes[n].operations => m = n

SequencesOf(polytopes) ==
    {polytopes[n].operations : n \in DOMAIN polytopes}

\* The sequences pushed so far: a pushed entry is still queued, or popped and
\* at its lookup, or composed, or discarded.
PushedSequences ==
    SequencesOf(to_be_explored) \cup SequencesOf(composed)
        \cup SequencesOf(discarded)
        \cup (IF pc \in {"popped", "lookup"}
              THEN {next_polytope.operations} ELSE {})

\* C21. Each gate sequence is handled at most once: an expansion pushes only
\* sequences never pushed before, no sequence is queued twice, composed
\* twice or both composed and discarded, and the necessary set never holds
\* two entries with the same sequence, so at most one entry matches an
\* ancestor lookup.
C21_HandledOnce ==
    /\ [][(pc = "composed" /\ pc' = "loop") =>
             \A i \in DOMAIN operations :
                Append(next_polytope.operations, i) \notin PushedSequences]_vars
    /\ [](DistinctSequences(to_be_explored))
    /\ [](DistinctSequences(composed \o discarded))
    /\ [](DistinctSequences(necessary_polytopes))
    /\ [](pc = "lookup" =>
             Cardinality({n \in DOMAIN necessary_polytopes :
                            necessary_polytopes[n].operations
                               = Prefix(next_polytope.operations)}) <= 1)

\* C21 witness: a run over two or more operations has returned after
\* composing four or more sequences and discarding one, with a two-gate
\* sequence in the necessary set.
C21_Witness ==
    /\ Returned
    /\ Len(operations) >= 2
    /\ Len(composed) >= 4
    /\ discarded # <<>>
    /\ \E n \in DOMAIN necessary_polytopes :
          Len(necessary_polytopes[n].operations) = 2

\* ------------------------------- rho-symmetrization, on the inequalities
\* fractions.Fraction: numerator and positive denominator in lowest terms
Abs(n) == IF n < 0 THEN -n ELSE n

RECURSIVE GCD(_, _)
GCD(m, n) == IF n = 0 THEN m ELSE GCD(n, m % n)

Fraction(numerator, denominator) ==
    LET g == GCD(Abs(numerator), denominator)
    IN  [num |-> numerator \div g, den |-> denominator \div g]

Plus(x, y) == Fraction(x.num * y.den + y.num * x.den, x.den * y.den)

Neg(x) == Fraction(-x.num, x.den)

Minus(x, y) == Plus(x, Neg(y))

\* x / 2
Half(x) == Fraction(x.num, 2 * x.den)

MaxNumerator == 1

MaxDenominator == 2

Rationals ==
    {Fraction(n, den) : n \in -MaxNumerator .. MaxNumerator,
                        den \in 1 .. MaxDenominator}

\* the coefficient blocks of a and b: all zero, or one coefficient 1
Middles ==
    {[i \in 1 .. 6 |-> IF i = j THEN Fraction(1, 1) ELSE Fraction(0, 1)] :
       j \in 0 .. 6}

\* an inequality d + ... + x c1 + y c2 + z c3 >= 0 of qlr_polytope's space
Inequality(d, middle, x, y, z) == <<d>> \o middle \o <<x, y, z>>

\* the inequalities c1 >= 0, c2 >= 0, c3 >= 0
CoordinateInequalities ==
    {Inequality(Fraction(0, 1), [i \in 1 .. 6 |-> Fraction(0, 1)],
                Fraction(IF j = 1 THEN 1 ELSE 0, 1),
                Fraction(IF j = 2 THEN 1 ELSE 0, 1),
                Fraction(IF j = 3 THEN 1 ELSE 0, 1)) : j \in 1 .. 3}

\* the rotation with the sign of z / 2 wrong
RotatedWithPlus(inequality) ==
    LET n == Len(inequality)
        d == inequality[1]
        x == inequality[n - 2]
        y == inequality[n - 1]
        z == inequality[n]
    IN  <<Plus(Plus(Plus(d, Half(x)), Half(y)), Half(z))>>
          \o SubSeq(inequality, 2, n - 3)
          \o <<Minus(z, y), Neg(y), Minus(x, y)>>

\* [d + x / 2 + y / 2 - z / 2, *inequality[1:-3], z - y, -y, x - y]
RotatedInequality(inequality) ==
    LET n == Len(inequality)
        d == inequality[1]
        x == inequality[n - 2]
        y == inequality[n - 1]
        z == inequality[n]
    IN  <<Minus(Plus(Plus(d, Half(x)), Half(y)), Half(z))>>
          \o SubSeq(inequality, 2, n - 3)
          \o <<Minus(z, y), Neg(y), Minus(x, y)>>

\* rotated_inequalities of one convex subpolytope
RotatedConvex(inequalities) ==
    [n \in DOMAIN inequalities |-> RotatedInequality(inequalities[n])]

\* p before the symmetrization: one convex subpolytope of one inequality, or
\* of two, or two convex subpolytopes
RhoInit ==
    /\ \E d \in Rationals, middle \in Middles :
          \E x \in Rationals, y \in Rationals, z \in Rationals :
             LET v == Inequality(d, middle, x, y, z)
             IN  \/ polytope_p = <<<<v>>>>
                 \/ \E w \in CoordinateInequalities :
                       \/ polytope_p = <<<<v, w>>>>
                       \/ polytope_p = <<<<v>>, <<w>>>>
    /\ rho_p = <<>>
    /\ rho_pc = "rotate"
    /\ CoverageIdle
    /\ QlrIdle
    /\ first_call = NoCall

\* for convex_subpolytope in p.convex_subpolytopes:
\*     rho_p.convex_subpolytopes.append(ConvexPolytope(rotated_inequalities))
Rotate ==
    /\ rho_pc = "rotate"
    /\ rho_p' = [m \in DOMAIN polytope_p |-> RotatedConvex(polytope_p[m])]
    /\ rho_pc' = "unite"
    /\ UNCHANGED <<coverage_vars, qlr_vars, first_call, polytope_p>>

\* Polytope.union: the region lists concatenated, duplicates permitted
PolytopeUnion(left, right) == left \o right

\* p = p.union(rho_p)
Unite ==
    /\ rho_pc = "unite"
    /\ polytope_p' = PolytopeUnion(polytope_p, rho_p)
    /\ rho_pc' = "united"
    /\ UNCHANGED <<coverage_vars, qlr_vars, first_call, rho_p>>

RhoNext ==
    \/ Rotate
    \/ Unite

RhoSpec == RhoInit /\ [][RhoNext]_vars

\* C22. The rho rotation is an involution on inequalities: a rotated
\* inequality has the length and the "a" and "b" coefficients of the one it
\* was rotated from, rotating it again gives that one back, and after the
\* union of p with its rotated copy the rotation of every convex subpolytope
\* of the union is a convex subpolytope of the union.
C22_RhoInvolution ==
    /\ rho_pc \in {"unite", "united"} =>
          \A m \in DOMAIN rho_p : \A n \in DOMAIN rho_p[m] :
             LET original == polytope_p[m][n]
                 rotated == rho_p[m][n]
             IN  /\ Len(rotated) = Len(original)
                 /\ SubSeq(rotated, 2, Len(rotated) - 3)
                       = SubSeq(original, 2, Len(original) - 3)
                 /\ RotatedInequality(rotated) = original
    /\ rho_pc = "united" =>
          \A c \in RangeOf(polytope_p) :
             RotatedConvex(c) \in RangeOf(polytope_p)

\* C22 witness: the union of two convex subpolytopes with their rotated
\* copies, where an inequality with a half-integer constant term, a non-zero
\* "a" or "b" coefficient and non-zero x, y, z differs from its rotation.
C22_Witness ==
    /\ rho_pc = "united"
    /\ Len(polytope_p) = 4
    /\ LET v == polytope_p[1][1]
       IN  /\ v[1].den = 2
           /\ \E i \in 2 .. 7 : v[i].num # 0
           /\ v[8].num # 0 /\ v[9].num # 0 /\ v[10].num # 0
           /\ rho_p[1][1] # v
           /\ rho_p[1][1][1] # v[1]

====
